---- MODULE Spec2Model ----
(***************************************************************************)
(* Model of the memeland_airdrop program                                   *)
(* (src/programs/memeland_airdrop/src/lib.rs): a merkle-gated airdrop      *)
(* whose claims are auto-staked and earn a share of a per-day reward       *)
(* budget, with daily snapshots of total_staked as the denominator.        *)
(*                                                                         *)
(* Every instruction is one atomic action (a Solana transaction either     *)
(* commits or has no effect).  A handler is modelled by a function that    *)
(* returns the error code the handler's require!/unwrap sequence yields,   *)
(* in source order, and by an action that is enabled exactly when that     *)
(* code is "Ok" and then applies the handler's assignments.                *)
(*                                                                         *)
(* Amounts and durations are scaled so that the state space is finite and  *)
(* small: the token pools keep the source's 1:2 ratio and the schedule     *)
(* keeps its shape (TOTAL_DAYS reward days followed by an exit window).    *)
(***************************************************************************)
EXTENDS Integers, Naturals, Sequences, FiniteSets, TLC

\* ---------------------------------------------------------------- constants
\* lib.rs:9   (20 in the source, scaled)
TOTAL_DAYS == 3
\* lib.rs:10  (86400 in the source, scaled)
SECONDS_PER_DAY == 2
\* lib.rs:11  (15 in the source, scaled)
EXIT_WINDOW_DAYS == 2
\* lib.rs:14  (50_000_000 * 10^9 in the source, scaled)
AIRDROP_POOL == 5
\* lib.rs:17  (100_000_000 * 10^9 in the source, scaled)
STAKING_POOL == 10
\* u64::MAX, the largest value the u64 fields and sums can hold (source: 2^64 - 1).
U64_MAX == 15

\* ------------------------------------------------------------------- bounds
\* The clock stops advancing at MaxTime (past the exit deadline).
MaxTime == 12

\* ------------------------------------------------------------ the signers
Admin == 0
Recipients == {1, 2, 3, 4}
Signers == {Admin} \cup Recipients
\* The committed eligibility set: recipient -> amount.  Its amounts sum to
\* more than AIRDROP_POOL, and recipient 4 is committed with amount 0.
Allocation == [r \in Recipients |-> IF r = 4 THEN 0 ELSE r]
Amounts == 0 .. 3
Days == 0 .. (TOTAL_DAYS - 1)

\* ------------------------------------------------------------------- state
VARIABLES
    pool_state,            \* "uninit" | "live" | "closed": the PoolState account
    merkle_root,           \* PoolState.merkle_root
    start_time,            \* PoolState.start_time
    total_staked,          \* PoolState.total_staked
    total_airdrop_claimed, \* PoolState.total_airdrop_claimed
    snapshot_count,        \* PoolState.snapshot_count
    terminated,            \* PoolState.terminated
    paused,                \* PoolState.paused
    daily_rewards,         \* PoolState.daily_rewards[0..TOTAL_DAYS)
    daily_snapshots,       \* PoolState.daily_snapshots[0..TOTAL_DAYS)
    user_stake,            \* recipient -> UserStake account (NoStake: no account)
    claim_marker,          \* recipients whose ClaimMarker account exists
    pool_token_account,    \* token balance held by the pool
    user_token_account,    \* recipient -> token balance received
    admin_token_account,   \* token balance received by the admin
    now,                   \* Clock::get().unix_timestamp
    claimed_amount,        \* history: recipient -> amount of its AirdropClaimed event
    rewards_paid,          \* history: day -> rewards paid for that day (Unstaked events)
    last_call              \* history: the last instruction that succeeded

vars == << pool_state, merkle_root, start_time, total_staked, total_airdrop_claimed,
           snapshot_count, terminated, paused, daily_rewards, daily_snapshots,
           user_stake, claim_marker, pool_token_account, user_token_account,
           admin_token_account, now, claimed_amount, rewards_paid, last_call >>

pool_vars == << merkle_root, start_time, total_staked, total_airdrop_claimed,
                snapshot_count, terminated, paused, daily_rewards, daily_snapshots >>

\* UserStake account; owner 0 stands for "the account does not exist".
NoStake == [owner |-> 0, staked_amount |-> 0, claim_day |-> 0]
StakeExists(r) == user_stake[r].owner = r

\* --------------------------------------------------------------- helpers
\* u64::saturating_sub
saturating_sub(a, b) == IF a >= b THEN a - b ELSE 0

exit_deadline(st) == st + ((TOTAL_DAYS + EXIT_WINDOW_DAYS) * SECONDS_PER_DAY)

\* program_expired with the deadline instant itself counted as expired.
program_expired_inclusive(st, t) == t >= exit_deadline(st)

program_expired(st, t) == t > exit_deadline(st)

\* get_current_day without the cap at TOTAL_DAYS.
get_current_day_uncapped(st, t) ==
    IF t <= st THEN 0 ELSE (t - st) \div SECONDS_PER_DAY

get_current_day(st, t) ==
    IF t <= st THEN 0
    ELSE LET day == (t - st) \div SECONDS_PER_DAY
         IN  IF day >= TOTAL_DAYS THEN TOTAL_DAYS ELSE day

\* user_share with the division rounded up instead of truncated.
user_share_ceil(staked_amount, d, rewards, snapshots) ==
    IF snapshots[d] = 0 THEN 0
    ELSE ((staked_amount * rewards[d]) + snapshots[d] - 1) \div snapshots[d]

\* One iteration of the reward loop: the share added for day d (0 when the
\* day's snapshot is 0: `continue`).
user_share(staked_amount, d, rewards, snapshots) ==
    IF snapshots[d] = 0 THEN 0
    ELSE (staked_amount * rewards[d]) \div snapshots[d]

RECURSIVE reward_loop(_, _, _, _, _, _)
reward_loop(d, total, staked_amount, count, rewards, snapshots) ==
    IF d >= count THEN total
    ELSE reward_loop(d + 1,
                     total + user_share(staked_amount, d, rewards, snapshots),
                     staked_amount, count, rewards, snapshots)

\* calculate_user_rewards with the loop started at day 0 instead of claim_day.
calculate_user_rewards_from_zero(staked_amount, claim_day, count, rewards, snapshots) ==
    reward_loop(0, 0, staked_amount, count, rewards, snapshots)

calculate_user_rewards(staked_amount, claim_day, count, rewards, snapshots) ==
    reward_loop(claim_day, 0, staked_amount, count, rewards, snapshots)

\* ------------------------------------------------------- merkle proofs
\* keccak::hashv is modelled by injective encodings with disjoint ranges:
\* a leaf digest is even, a two-input digest is odd (Cantor pairing), so
\* distinct inputs give distinct digests, as collision resistance promises.
\* Digests compare as numbers, which is the byte-wise comparison of the
\* source on big-endian bytes.
leaf_hash(user, amount) == 2 * ((user * 8) + amount)

hashv(x, y) == 2 * ((((x + y) * (x + y + 1)) \div 2) + y) + 1

\* merkle_step hashing the accumulator first whatever the order.
merkle_step_unsorted(computed_hash, node) == hashv(computed_hash, node)

\* One step of the fold: the smaller digest is hashed first.
merkle_step(computed_hash, node) ==
    IF computed_hash <= node THEN hashv(computed_hash, node)
    ELSE hashv(node, computed_hash)

RECURSIVE merkle_fold(_, _)
merkle_fold(computed_hash, proof) ==
    IF proof = << >> THEN computed_hash
    ELSE merkle_fold(merkle_step(computed_hash, Head(proof)), Tail(proof))

verify_merkle_proof(proof, root, leaf) == merkle_fold(leaf, proof) = root

\* The tree the admin commits to: four leaves, two levels.
TreeLeaf(r) == leaf_hash(r, Allocation[r])
TreeSibling(r) == CASE r = 1 -> 2 [] r = 2 -> 1 [] r = 3 -> 4 [] r = 4 -> 3
TreeNode(r) == merkle_step(TreeLeaf(r), TreeLeaf(TreeSibling(r)))
TreeUncle(r) == IF r \in {1, 2} THEN TreeNode(3) ELSE TreeNode(1)
TreeRoot == merkle_step(TreeNode(1), TreeNode(3))
TreeProof(r) == << TreeLeaf(TreeSibling(r)), TreeUncle(r) >>
\* The proofs a caller may submit: every recipient's proof, a proof with a
\* wrong second node and the empty proof.
Proofs == { TreeProof(r) : r \in Recipients }
            \cup { << TreeLeaf(2), TreeLeaf(3) >>, << >> }

\* ------------------------------------------------------ initialize_pool
\* The reward schedules a caller may submit: sums 10, 9, 11, and 26, which
\* does not fit the width of the sum and is 10 modulo 2^w.
RewardInputs == { << 4, 3, 3 >>, << 4, 3, 2 >>, << 4, 4, 3 >>, << 13, 13, 0 >> }
ToDays(seq) == [d \in Days |-> seq[d + 1]]

\* checked_add wrapping around at the width of the type.
wrapping_add(a, b) == (a + b) % (U64_MAX + 1)

\* u64::checked_add: the sum, or -1 for None (the unwrap then panics).
checked_add(a, b) == IF a + b > U64_MAX THEN -1 ELSE a + b

\* The sum loop: sum = sum.checked_add(daily_rewards[d]).unwrap() for d from
\* 0 on; -1 when an addition overflowed.
RECURSIVE rewards_sum(_, _, _)
rewards_sum(rewards, d, sum) ==
    IF d >= TOTAL_DAYS THEN sum
    ELSE IF checked_add(sum, rewards[d]) < 0 THEN -1
    ELSE rewards_sum(rewards, d + 1, checked_add(sum, rewards[d]))

initialize_pool_err(caller, st, rewards) ==
    IF pool_state # "uninit" THEN "AccountAlreadyInUse"
    ELSE IF caller # Admin THEN "ConstraintRaw"
    ELSE IF ~(st > now) THEN "StartTimeInPast"
    ELSE IF rewards_sum(rewards, 0, 0) < 0 THEN "Panic"
    ELSE IF rewards_sum(rewards, 0, 0) # STAKING_POOL THEN "InvalidDailyRewards"
    ELSE "Ok"

InitializePool(caller, st, root, rewards) ==
    /\ initialize_pool_err(caller, st, rewards) = "Ok"
    /\ pool_state' = "live"
    /\ merkle_root' = root
    /\ start_time' = st
    /\ total_staked' = 0
    /\ total_airdrop_claimed' = 0
    /\ snapshot_count' = 0
    /\ terminated' = 0
    /\ paused' = 0
    /\ daily_rewards' = rewards
    /\ daily_snapshots' = [d \in Days |-> 0]
    /\ last_call' = [op |-> "initialize_pool", user |-> caller]
    /\ UNCHANGED << user_stake, claim_marker, pool_token_account, user_token_account,
                    admin_token_account, now, claimed_amount, rewards_paid >>

\* The admin funds the pool's token account (a plain token transfer, outside
\* the program) with both pools before the start time.
FundPool ==
    /\ pool_state = "live"
    /\ pool_token_account = 0
    /\ now < start_time
    /\ pool_token_account' = AIRDROP_POOL + STAKING_POOL
    /\ last_call' = [op |-> "fund", user |-> Admin]
    /\ UNCHANGED << pool_state, pool_vars, user_stake, claim_marker, user_token_account,
                    admin_token_account, now, claimed_amount, rewards_paid >>

\* --------------------------------------------------------- claim_airdrop
\* claim_accounts_free without the ClaimMarker account.
claim_accounts_free_no_marker(r) == ~StakeExists(r)

\* The two `init` accounts of ClaimAirdrop: creation fails when the account
\* at that address already exists.
claim_accounts_free(r) == r \notin claim_marker /\ ~StakeExists(r)

\* airdrop_within_pool with the check left out.
airdrop_within_pool_unchecked(claimed_after) == TRUE

\* require!(pool.total_airdrop_claimed <= AIRDROP_POOL), evaluated on the
\* incremented total.
airdrop_within_pool(claimed_after) == claimed_after <= AIRDROP_POOL

\* claim_airdrop_err without the SnapshotRequiredFirst guard.
claim_airdrop_err_no_snapshot_gate(r, amount, proof) ==
    IF pool_state # "live" THEN "AccountNotInitialized"
    ELSE IF ~claim_accounts_free(r) THEN "AccountAlreadyInUse"
    ELSE IF paused # 0 THEN "PoolPaused"
    ELSE IF terminated # 0 THEN "PoolTerminated"
    ELSE IF program_expired(start_time, now) THEN "ProgramExpired"
    ELSE IF ~(now > start_time) THEN "PoolNotStartedYet"
    ELSE IF ~verify_merkle_proof(proof, merkle_root, leaf_hash(r, amount))
         THEN "InvalidMerkleProof"
    ELSE IF ~airdrop_within_pool(total_airdrop_claimed + amount)
         THEN "AirdropPoolExhausted"
    ELSE "Ok"

claim_airdrop_err(r, amount, proof) ==
    LET current_day == get_current_day(start_time, now) IN
    IF pool_state # "live" THEN "AccountNotInitialized"
    ELSE IF ~claim_accounts_free(r) THEN "AccountAlreadyInUse"
    ELSE IF paused # 0 THEN "PoolPaused"
    ELSE IF terminated # 0 THEN "PoolTerminated"
    ELSE IF program_expired(start_time, now) THEN "ProgramExpired"
    ELSE IF ~(now > start_time) THEN "PoolNotStartedYet"
    ELSE IF current_day >= 1 /\ ~(snapshot_count >= current_day)
         THEN "SnapshotRequiredFirst"
    ELSE IF ~verify_merkle_proof(proof, merkle_root, leaf_hash(r, amount))
         THEN "InvalidMerkleProof"
    ELSE IF ~airdrop_within_pool(total_airdrop_claimed + amount)
         THEN "AirdropPoolExhausted"
    ELSE "Ok"

ClaimAirdrop(r, amount, proof) ==
    /\ claim_airdrop_err(r, amount, proof) = "Ok"
    /\ claim_marker' = claim_marker \cup {r}
    /\ user_stake' = [user_stake EXCEPT ![r] =
                         [owner |-> r, staked_amount |-> amount,
                          claim_day |-> get_current_day(start_time, now)]]
    /\ total_staked' = total_staked + amount
    /\ total_airdrop_claimed' = total_airdrop_claimed + amount
    /\ claimed_amount' = [claimed_amount EXCEPT ![r] = amount]
    /\ last_call' = [op |-> "claim_airdrop", user |-> r]
    /\ UNCHANGED << pool_state, merkle_root, start_time, snapshot_count, terminated,
                    paused, daily_rewards, daily_snapshots, pool_token_account,
                    user_token_account, admin_token_account, now, rewards_paid >>

\* -------------------------------------------------------------- snapshot
\* snapshot_fill with the loop started at day 0 instead of snapshot_count.
snapshot_fill_from_zero(snapshots, last, current_day, staked) ==
    [d \in Days |->
        IF d < current_day /\ snapshots[d] = 0 THEN staked ELSE snapshots[d]]

\* snapshot_fill started at day 0 and without the test for an empty slot.
snapshot_fill_overwrite(snapshots, last, current_day, staked) ==
    [d \in Days |-> IF d < current_day THEN staked ELSE snapshots[d]]

\* snapshot_fill writing only the slot of the previous day (no catch-up).
snapshot_fill_last_only(snapshots, last, current_day, staked) ==
    [d \in Days |->
        IF d = current_day - 1 /\ snapshots[d] = 0 THEN staked ELSE snapshots[d]]

\* snapshot_fill with the current day included in the loop (last..=current_day).
snapshot_fill_inclusive(snapshots, last, current_day, staked) ==
    [d \in Days |->
        IF last <= d /\ d <= current_day /\ snapshots[d] = 0 THEN staked
        ELSE snapshots[d]]

\* The fill loop: for d in last..current_day, a slot that is 0 receives
\* total_staked.
snapshot_fill(snapshots, last, current_day, staked) ==
    [d \in Days |->
        IF last <= d /\ d < current_day /\ snapshots[d] = 0 THEN staked
        ELSE snapshots[d]]

snapshot_err ==
    LET current_day == get_current_day(start_time, now) IN
    IF pool_state # "live" THEN "AccountNotInitialized"
    ELSE IF paused # 0 THEN "PoolPaused"
    ELSE IF terminated # 0 THEN "PoolTerminated"
    ELSE IF ~(current_day >= 1 /\ current_day <= TOTAL_DAYS) THEN "InvalidDay"
    ELSE "Ok"

Snapshot(caller) ==
    LET current_day == get_current_day(start_time, now) IN
    /\ snapshot_err = "Ok"
    /\ daily_snapshots' = snapshot_fill(daily_snapshots, snapshot_count, current_day,
                                        total_staked)
    /\ snapshot_count' = current_day
    /\ last_call' = [op |-> "snapshot", user |-> caller]
    /\ UNCHANGED << pool_state, merkle_root, start_time, total_staked,
                    total_airdrop_claimed, terminated, paused, daily_rewards,
                    user_stake, claim_marker, pool_token_account, user_token_account,
                    admin_token_account, now, claimed_amount, rewards_paid >>

\* --------------------------------------------------------------- unstake
\* let rewards = if expired { 0 } else { calculate_user_rewards(..) }
unstake_rewards(stake) ==
    IF program_expired(start_time, now) THEN 0
    ELSE calculate_user_rewards(stake.staked_amount, stake.claim_day, snapshot_count,
                                daily_rewards, daily_snapshots)

\* total_payout = staked_amount.checked_add(rewards)
total_payout(stake) == stake.staked_amount + unstake_rewards(stake)

\* unstake_total_staked subtracting the whole payout.
unstake_total_staked_payout(staked, stake) ==
    saturating_sub(staked, total_payout(stake))

\* pool.total_staked.checked_sub(user_stake.staked_amount)
unstake_total_staked(staked, stake) == staked - stake.staked_amount

\* pool.total_staked at the moment unstake issues token::transfer: the
\* transfer comes before the checked_sub, so it is still the old value.
unstake_total_staked_at_transfer(staked, stake) == staked

\* The part of the payout that is the reward for day d.
paid_for_day(stake, d) ==
    IF ~program_expired(start_time, now) /\ stake.claim_day <= d /\ d < snapshot_count
    THEN user_share(stake.staked_amount, d, daily_rewards, daily_snapshots)
    ELSE 0

\* unstake_err without the SnapshotRequiredFirst guard.
unstake_err_no_snapshot_gate(r) ==
    IF pool_state # "live" THEN "AccountNotInitialized"
    ELSE IF ~StakeExists(r) THEN "AccountNotInitialized"
    ELSE IF ~(user_stake[r].staked_amount > 0) THEN "NothingStaked"
    ELSE IF pool_token_account < total_payout(user_stake[r]) THEN "InsufficientFunds"
    ELSE IF total_staked < user_stake[r].staked_amount THEN "Panic"
    ELSE "Ok"

unstake_err(r) ==
    LET current_day == get_current_day(start_time, now) IN
    IF pool_state # "live" THEN "AccountNotInitialized"
    ELSE IF ~StakeExists(r) THEN "AccountNotInitialized"
    ELSE IF ~(user_stake[r].staked_amount > 0) THEN "NothingStaked"
    ELSE IF current_day >= 1 /\ ~(snapshot_count >= current_day)
         THEN "SnapshotRequiredFirst"
    ELSE IF pool_token_account < total_payout(user_stake[r]) THEN "InsufficientFunds"
    ELSE IF total_staked < user_stake[r].staked_amount THEN "Panic"
    ELSE "Ok"

Unstake(r) ==
    LET stake == user_stake[r] IN
    /\ unstake_err(r) = "Ok"
    /\ pool_token_account' = pool_token_account - total_payout(stake)
    /\ user_token_account' = [user_token_account EXCEPT ![r] = @ + total_payout(stake)]
    /\ total_staked' = unstake_total_staked(total_staked, stake)
    /\ user_stake' = [user_stake EXCEPT ![r] = NoStake]
    /\ rewards_paid' = [d \in Days |-> rewards_paid[d] + paid_for_day(stake, d)]
    /\ last_call' = [op |-> "unstake", user |-> r]
    /\ UNCHANGED << pool_state, merkle_root, start_time, total_airdrop_claimed,
                    snapshot_count, terminated, paused, daily_rewards, daily_snapshots,
                    claim_marker, admin_token_account, now, claimed_amount >>

\* -------------------------------------------------------- terminate_pool
\* terminate_reserved reserving the principal only.
terminate_reserved_principal_only(staked) == staked

\* reserved = total_staked.saturating_add(STAKING_POOL)
terminate_reserved(staked) == staked + STAKING_POOL

terminate_drainable(balance, staked) ==
    saturating_sub(balance, terminate_reserved(staked))

\* terminate_pool_err without the SnapshotsNotCompleted guard.
terminate_pool_err_no_snapshots(caller) ==
    IF pool_state # "live" THEN "AccountNotInitialized"
    ELSE IF caller # Admin THEN "UnauthorizedAdmin"
    ELSE IF terminated # 0 THEN "AlreadyTerminated"
    ELSE "Ok"

\* pool.terminated at the moment terminate_pool issues token::transfer: the
\* flag is set before the drain amount is computed.
terminate_terminated_at_transfer == 1

terminate_pool_err(caller) ==
    IF pool_state # "live" THEN "AccountNotInitialized"
    ELSE IF caller # Admin THEN "UnauthorizedAdmin"
    ELSE IF terminated # 0 THEN "AlreadyTerminated"
    ELSE IF ~(snapshot_count >= TOTAL_DAYS) THEN "SnapshotsNotCompleted"
    ELSE "Ok"

TerminatePool(caller) ==
    LET drainable == terminate_drainable(pool_token_account, total_staked) IN
    /\ terminate_pool_err(caller) = "Ok"
    /\ terminated' = 1
    /\ pool_token_account' = pool_token_account - drainable
    /\ admin_token_account' = admin_token_account + drainable
    /\ last_call' = [op |-> "terminate_pool", user |-> caller]
    /\ UNCHANGED << pool_state, merkle_root, start_time, total_staked,
                    total_airdrop_claimed, snapshot_count, paused, daily_rewards,
                    daily_snapshots, user_stake, claim_marker, user_token_account,
                    now, claimed_amount, rewards_paid >>

\* ------------------------------------------------ recover_expired_tokens
\* ------------------------------------------------------ calculate_rewards
\* calculate_rewards always dividing by the last recorded snapshot.
calculate_rewards_last_snapshot(stake, day) ==
    IF day < stake.claim_day THEN 0
    ELSE LET snapshot_total ==
                 IF snapshot_count > 0 THEN daily_snapshots[snapshot_count - 1]
                 ELSE total_staked
         IN  IF snapshot_total > 0
             THEN (stake.staked_amount * daily_rewards[day]) \div snapshot_total
             ELSE 0

\* The reward the view instruction logs for the stake and the day.
calculate_rewards(stake, day) ==
    IF day < stake.claim_day THEN 0
    ELSE LET snapshot_total ==
                 IF day < snapshot_count THEN daily_snapshots[day]
                 ELSE IF snapshot_count > 0 THEN daily_snapshots[snapshot_count - 1]
                 ELSE total_staked
         IN  IF snapshot_total > 0
             THEN (stake.staked_amount * daily_rewards[day]) \div snapshot_total
             ELSE 0

calculate_rewards_err(r, day) ==
    IF pool_state # "live" THEN "AccountNotInitialized"
    ELSE IF ~StakeExists(r) THEN "AccountNotInitialized"
    ELSE IF ~(day < TOTAL_DAYS) THEN "InvalidDay"
    ELSE "Ok"

\* The view instruction: it only logs, no account is written.
CalculateRewards(r, day) ==
    /\ calculate_rewards_err(r, day) = "Ok"
    /\ last_call' = [op |-> "calculate_rewards", user |-> r]
    /\ UNCHANGED << pool_state, pool_vars, user_stake, claim_marker, pool_token_account,
                    user_token_account, admin_token_account, now, claimed_amount,
                    rewards_paid >>

\* ---------------------------------------------------- recover_expired_tokens
recover_amount(balance, staked) == saturating_sub(balance, staked)

recover_expired_tokens_err(caller) ==
    IF pool_state # "live" THEN "AccountNotInitialized"
    ELSE IF caller # Admin THEN "UnauthorizedAdmin"
    ELSE IF ~program_expired(start_time, now) THEN "ExitWindowNotFinished"
    ELSE IF ~(recover_amount(pool_token_account, total_staked) > 0)
         THEN "NothingToRecover"
    ELSE "Ok"

RecoverExpiredTokens(caller) ==
    LET amount == recover_amount(pool_token_account, total_staked) IN
    /\ recover_expired_tokens_err(caller) = "Ok"
    /\ pool_token_account' = pool_token_account - amount
    /\ admin_token_account' = admin_token_account + amount
    /\ last_call' = [op |-> "recover_expired_tokens", user |-> caller]
    /\ UNCHANGED << pool_state, pool_vars, user_stake, claim_marker,
                    user_token_account, now, claimed_amount, rewards_paid >>

\* ------------------------------------------------------------ close_pool
\* token::close_account refuses a token account that still holds tokens.
close_pool_err(caller) ==
    IF pool_state # "live" THEN "AccountNotInitialized"
    ELSE IF caller # Admin THEN "UnauthorizedAdmin"
    ELSE IF ~(terminated = 1) THEN "PoolNotTerminated"
    ELSE IF ~(total_staked = 0) THEN "PoolNotEmpty"
    ELSE IF pool_token_account # 0 THEN "NonNativeHasBalance"
    ELSE "Ok"

ClosePool(caller) ==
    /\ close_pool_err(caller) = "Ok"
    /\ pool_state' = "closed"
    /\ last_call' = [op |-> "close_pool", user |-> caller]
    /\ UNCHANGED << pool_vars, user_stake, claim_marker, pool_token_account,
                    user_token_account, admin_token_account, now, claimed_amount,
                    rewards_paid >>

\* ------------------------------------------------- pause_pool / unpause
\* pause_pool_err without the PoolTerminated guard.
pause_pool_err_no_terminated(caller) ==
    IF pool_state # "live" THEN "AccountNotInitialized"
    ELSE IF caller # Admin THEN "UnauthorizedAdmin"
    ELSE IF ~(paused = 0) THEN "AlreadyPaused"
    ELSE "Ok"

pause_pool_err(caller) ==
    IF pool_state # "live" THEN "AccountNotInitialized"
    ELSE IF caller # Admin THEN "UnauthorizedAdmin"
    ELSE IF ~(paused = 0) THEN "AlreadyPaused"
    ELSE IF ~(terminated = 0) THEN "PoolTerminated"
    ELSE "Ok"

PausePool(caller) ==
    /\ pause_pool_err(caller) = "Ok"
    /\ paused' = 1
    /\ last_call' = [op |-> "pause_pool", user |-> caller]
    /\ UNCHANGED << pool_state, merkle_root, start_time, total_staked,
                    total_airdrop_claimed, snapshot_count, terminated, daily_rewards,
                    daily_snapshots, user_stake, claim_marker, pool_token_account,
                    user_token_account, admin_token_account, now, claimed_amount,
                    rewards_paid >>

unpause_pool_err(caller) ==
    IF pool_state # "live" THEN "AccountNotInitialized"
    ELSE IF caller # Admin THEN "UnauthorizedAdmin"
    ELSE IF ~(paused = 1) THEN "PoolNotPaused"
    ELSE IF ~(terminated = 0) THEN "PoolTerminated"
    ELSE "Ok"

UnpausePool(caller) ==
    /\ unpause_pool_err(caller) = "Ok"
    /\ paused' = 0
    /\ last_call' = [op |-> "unpause_pool", user |-> caller]
    /\ UNCHANGED << pool_state, merkle_root, start_time, total_staked,
                    total_airdrop_claimed, snapshot_count, terminated, daily_rewards,
                    daily_snapshots, user_stake, claim_marker, pool_token_account,
                    user_token_account, admin_token_account, now, claimed_amount,
                    rewards_paid >>

\* ----------------------------------------------------------------- clock
\* The clock is monotonic.  It is not advanced before the pool is funded.
Tick ==
    /\ pool_state = "live"
    /\ pool_token_account > 0 \/ now >= start_time
    /\ now < MaxTime
    /\ now' = now + 1
    /\ last_call' = [op |-> "tick", user |-> Admin]
    /\ UNCHANGED << pool_state, pool_vars, user_stake, claim_marker, pool_token_account,
                    user_token_account, admin_token_account, claimed_amount,
                    rewards_paid >>

\* --------------------------------------------------------- specification
Init ==
    /\ pool_state = "uninit"
    /\ merkle_root = 0
    /\ start_time = 0
    /\ total_staked = 0
    /\ total_airdrop_claimed = 0
    /\ snapshot_count = 0
    /\ terminated = 0
    /\ paused = 0
    /\ daily_rewards = [d \in Days |-> 0]
    /\ daily_snapshots = [d \in Days |-> 0]
    /\ user_stake = [r \in Recipients |-> NoStake]
    /\ claim_marker = {}
    /\ pool_token_account = 0
    /\ user_token_account = [r \in Recipients |-> 0]
    /\ admin_token_account = 0
    /\ now = 0
    /\ claimed_amount = [r \in Recipients |-> 0]
    /\ rewards_paid = [d \in Days |-> 0]
    /\ last_call = [op |-> "none", user |-> Admin]

Next ==
    \/ \E caller \in Signers, st \in {0, 1}, rewards \in RewardInputs :
          InitializePool(caller, st, TreeRoot, ToDays(rewards))
    \/ FundPool
    \/ \E r \in Recipients, amount \in Amounts, proof \in Proofs :
          ClaimAirdrop(r, amount, proof)
    \/ \E caller \in Signers : Snapshot(caller)
    \/ \E r \in Recipients : Unstake(r)
    \/ \E caller \in Signers : TerminatePool(caller)
    \/ \E r \in Recipients, day \in 0 .. TOTAL_DAYS : CalculateRewards(r, day)
    \/ \E caller \in Signers : RecoverExpiredTokens(caller)
    \/ \E caller \in Signers : ClosePool(caller)
    \/ \E caller \in Signers : PausePool(caller)
    \/ \E caller \in Signers : UnpausePool(caller)
    \/ Tick

Spec == Init /\ [][Next]_vars

\* ------------------------------------------------------------ properties
RECURSIVE SumOver(_, _)
\* The sum of f[x] over the finite set S.
SumOver(S, f) ==
    IF S = {} THEN 0
    ELSE LET x == CHOOSE y \in S : TRUE IN f[x] + SumOver(S \ {x}, f)

current_day_now == get_current_day(start_time, now)
Exited(r) == r \in claim_marker /\ ~StakeExists(r)
\* Steps of one instruction (last_call' is tested first, which is cheap).
ClaimStep(r) ==
    /\ last_call' = [op |-> "claim_airdrop", user |-> r]
    /\ \E amount \in Amounts, proof \in Proofs : ClaimAirdrop(r, amount, proof)
UnstakeStep(r) == last_call' = [op |-> "unstake", user |-> r] /\ Unstake(r)
SnapshotStep == last_call'.op = "snapshot" /\ \E caller \in Signers : Snapshot(caller)
TerminateStep == last_call'.op = "terminate_pool" /\ \E caller \in Signers : TerminatePool(caller)
\* Every guard of claim_airdrop other than the account creation passes for
\* recipient r with its committed amount and proof.
ClaimOtherwiseAccepted(r) ==
    /\ pool_state = "live" /\ paused = 0 /\ terminated = 0
    /\ ~program_expired(start_time, now) /\ now > start_time
    /\ snapshot_count >= current_day_now
    /\ verify_merkle_proof(TreeProof(r), merkle_root, leaf_hash(r, Allocation[r]))
    /\ total_airdrop_claimed + Allocation[r] <= AIRDROP_POOL

\* C1: a recipient claims at most once per pool. A successful claim by r
\* creates r's claim marker; while the marker exists no claim by r succeeds
\* (also after r has unstaked and its stake entry is gone); and no step
\* removes a marker.
C1_ClaimAtMostOnce ==
    [][\A r \in Recipients :
          /\ ClaimStep(r) => (r \notin claim_marker /\ r \in claim_marker')
          /\ r \in claim_marker => r \in claim_marker']_vars

\* C1 witness: r has claimed and unstaked, and a new claim by r would pass
\* every other guard.
C1_Witness ==
    \E r \in Recipients :
        /\ Exited(r) /\ last_call = [op |-> "unstake", user |-> r]
        /\ ClaimOtherwiseAccepted(r)

\* C2: total_staked is the sum of staked_amount over the stake entries that
\* exist.
C2_TotalStakedIsSum ==
    total_staked = SumOver(Recipients, [r \in Recipients |-> user_stake[r].staked_amount])

\* C2 witness: an unstake has just happened while another stake is open and
\* three recipients have claimed.
C2_Witness ==
    /\ last_call.op = "unstake"
    /\ total_staked > 0
    /\ Cardinality(claim_marker) >= 3

\* The state part of C3.
C3_ClaimedState ==
    /\ total_airdrop_claimed = SumOver(Recipients, claimed_amount)
    /\ total_airdrop_claimed <= AIRDROP_POOL
    /\ \A r \in Recipients, amount \in Amounts, proof \in Proofs :
          total_airdrop_claimed + amount > AIRDROP_POOL
              => claim_airdrop_err(r, amount, proof) # "Ok"

\* C3: total_airdrop_claimed is the sum of the amounts of all successful
\* claims and at most AIRDROP_POOL; a claim that would exceed AIRDROP_POOL is
\* rejected; total_airdrop_claimed never decreases (unstake leaves it as is).
C3_ClaimedBounded ==
    /\ [](C3_ClaimedState)
    /\ [][/\ total_airdrop_claimed' >= total_airdrop_claimed
          /\ (\E r \in Recipients : UnstakeStep(r))
                => total_airdrop_claimed' = total_airdrop_claimed]_vars

\* C3 witness: after an unstake, a claim with a valid proof is rejected only
\* because it would exceed AIRDROP_POOL.
C3_Witness ==
    \E r \in Recipients :
        /\ claim_airdrop_err(r, Allocation[r], TreeProof(r)) = "AirdropPoolExhausted"
        /\ total_staked < total_airdrop_claimed

\* C4: for every day d the rewards paid out for d, over all unstakes, are at
\* most daily_rewards[d]; the total reward paid is at most STAKING_POOL. The
\* rewards paid are what the recipients received beyond their principal.
C4_RewardsWithinBudget ==
    /\ \A d \in Days : rewards_paid[d] <= daily_rewards[d]
    /\ SumOver(Days, rewards_paid) <= STAKING_POOL
    /\ SumOver(Recipients, user_token_account)
          = SumOver(Days, rewards_paid)
            + SumOver({r \in Recipients : Exited(r)}, claimed_amount)

\* C4 witness: two recipients were paid rewards, and some day's budget was
\* paid out in part, with dust left.
C4_Witness ==
    /\ Cardinality({r \in Recipients : user_token_account[r] > claimed_amount[r]}) >= 2
    /\ \E d \in Days : 0 < rewards_paid[d] /\ rewards_paid[d] < daily_rewards[d]
    /\ \A r \in Recipients : ~StakeExists(r)

\* The state part of C5.
C5_Solvent ==
    terminated = 1 =>
        pool_token_account >=
            SumOver(Recipients, [r \in Recipients |-> total_payout(user_stake[r])])

\* C5: terminate_pool transfers to the admin exactly
\* max(0, pool_balance - (total_staked + STAKING_POOL)); in every state after
\* termination the pool balance covers principal plus accrued reward of every
\* remaining stake.
C5_TerminateSafe ==
    /\ [](C5_Solvent)
    /\ [][TerminateStep =>
            /\ admin_token_account' - admin_token_account
                 = (IF pool_token_account > total_staked + STAKING_POOL
                    THEN pool_token_account - (total_staked + STAKING_POOL) ELSE 0)
            /\ pool_token_account' + admin_token_account'
                 = pool_token_account + admin_token_account]_vars

\* C5 witness: termination has just drained a surplus to the admin while a
\* stake with accrued rewards is still open.
C5_Witness ==
    /\ last_call.op = "terminate_pool"
    /\ admin_token_account > 0
    /\ \E r \in Recipients :
          StakeExists(r) /\ total_payout(user_stake[r]) > user_stake[r].staked_amount

\* An existing stake entry of recipient r with a principal to pay out.
OpenStake(r) == pool_state = "live" /\ StakeExists(r) /\ user_stake[r].staked_amount > 0

\* C6: once the exit deadline has passed, unstake by the owner of any
\* existing stake entry with staked_amount > 0 succeeds and pays exactly the
\* principal, whatever snapshot_count, paused and terminated are.
C6_ExpiredExitAlwaysSucceeds ==
    \A r \in Recipients :
        (OpenStake(r) /\ program_expired(start_time, now)) =>
            /\ unstake_err(r) = "Ok"
            /\ total_payout(user_stake[r]) = user_stake[r].staked_amount

\* C7: while the pool is paused, claim_airdrop and snapshot are rejected and
\* unstake by the owner of an existing stake succeeds, also after the clock
\* has moved into a later day during the pause.
C7_PauseNeverBlocksExit ==
    (pool_state = "live" /\ paused = 1) =>
        /\ \A r \in Recipients, amount \in Amounts, proof \in Proofs :
              claim_airdrop_err(r, amount, proof) # "Ok"
        /\ snapshot_err # "Ok"
        /\ \A r \in Recipients : OpenStake(r) => unstake_err(r) = "Ok"

\* C8: a snapshot called in a day in which a snapshot has already succeeded
\* (snapshot_count equals the current day) changes no daily_snapshots slot
\* and leaves snapshot_count unchanged.
C8_SnapshotIdempotent ==
    [][(SnapshotStep /\ snapshot_count = current_day_now)
          => UNCHANGED << daily_snapshots, snapshot_count >>]_vars

\* C8 witness: a second snapshot of the same day has just succeeded after
\* total_staked changed (the first snapshot of a day leaves the previous
\* day's slot equal to total_staked).
C8_Witness ==
    /\ last_call.op = "snapshot"
    /\ snapshot_count >= 1
    /\ daily_snapshots[snapshot_count - 1] # total_staked
    /\ total_staked > 0

\* C9: snapshot_count never decreases and never exceeds TOTAL_DAYS, and a
\* daily_snapshots slot that is non-zero keeps its value.
C9_SnapshotMonotone ==
    [][/\ snapshot_count' >= snapshot_count
       /\ snapshot_count' <= TOTAL_DAYS
       /\ \A d \in Days :
             daily_snapshots[d] # 0 => daily_snapshots'[d] = daily_snapshots[d]]_vars

\* C9 witness: a catch-up snapshot has just completed all days while an
\* earlier slot holds a different non-zero value.
C9_Witness ==
    /\ last_call.op = "snapshot"
    /\ snapshot_count = TOTAL_DAYS
    /\ total_staked > 0
    /\ \E d \in Days : daily_snapshots[d] # 0 /\ daily_snapshots[d] # total_staked
    /\ \E d \in Days : daily_snapshots[d] = total_staked

\* The days that contribute to the reward of a stake: from claim_day up to
\* snapshot_count, with a non-zero snapshot.
RewardDays(stake) ==
    {d \in Days : stake.claim_day <= d /\ d < snapshot_count /\ daily_snapshots[d] > 0}

\* C10: a successful unstake before the exit deadline pays staked_amount plus
\* the sum, over the days d in [claim_day, snapshot_count) with a non-zero
\* snapshot, of floor(staked_amount * daily_rewards[d] / daily_snapshots[d]);
\* e.g. stake 100 from day 0, daily_rewards[0] = 1000, daily_snapshots[0] =
\* 100 and snapshot_count = 1 give reward 1000.
C10_UnstakePayout ==
    [][\A r \in Recipients :
          (UnstakeStep(r) /\ ~program_expired(start_time, now)) =>
             LET stake == user_stake[r] IN
             /\ user_token_account'[r] - user_token_account[r]
                  = stake.staked_amount
                    + SumOver(RewardDays(stake),
                              [d \in Days |-> (stake.staked_amount * daily_rewards[d])
                                                \div daily_snapshots[d]])
             /\ pool_token_account - pool_token_account'
                  = user_token_account'[r] - user_token_account[r]
             /\ calculate_user_rewards(100, 0, 1, [d \in Days |-> 1000],
                                       [d \in Days |-> 100]) = 1000]_vars

\* C10 witness: a recipient has just unstaked before the deadline and
\* received a reward, some snapshotted day was skipped for a zero snapshot,
\* and another day was paid in part only.
C10_Witness ==
    /\ last_call.op = "unstake"
    /\ ~program_expired(start_time, now)
    /\ user_token_account[last_call.user] > claimed_amount[last_call.user]
    /\ \E d \in Days : d < snapshot_count /\ daily_snapshots[d] = 0
    /\ \E d \in Days : 0 < rewards_paid[d] /\ rewards_paid[d] < daily_rewards[d]

PauseStep == last_call'.op = "pause_pool" /\ \E caller \in Signers : PausePool(caller)
UnpauseStep == last_call'.op = "unpause_pool" /\ \E caller \in Signers : UnpausePool(caller)

\* C11: termination is one-way. From a terminated state every step keeps
\* terminated set and paused as it is, and is no claim_airdrop, snapshot,
\* pause_pool, unpause_pool or terminate_pool; unstake of an open stake is
\* accepted in every terminated state.
C11_TerminationOneWay ==
    /\ [][terminated = 1 =>
            /\ terminated' = 1
            /\ paused' = paused
            /\ \A r \in Recipients : ~ClaimStep(r)
            /\ ~SnapshotStep /\ ~PauseStep /\ ~UnpauseStep /\ ~TerminateStep]_vars
    /\ [](terminated = 1 =>
            /\ \A r \in Recipients, amount \in Amounts, proof \in Proofs :
                  claim_airdrop_err(r, amount, proof) # "Ok"
            /\ snapshot_err # "Ok"
            /\ \A caller \in Signers :
                  /\ pause_pool_err(caller) # "Ok"
                  /\ unpause_pool_err(caller) # "Ok"
                  /\ terminate_pool_err(caller) # "Ok"
            /\ \A r \in Recipients : OpenStake(r) => unstake_err(r) = "Ok")

\* C11 witness: a recipient has just unstaked from a pool that was terminated
\* while paused, and another stake is still open.
C11_Witness ==
    /\ terminated = 1 /\ paused = 1
    /\ last_call.op = "unstake"
    /\ \E r \in Recipients : OpenStake(r)

\* C12: terminate_pool succeeds only from a pool that is not terminated and
\* has snapshot_count = TOTAL_DAYS; a terminated pool has the clock in day
\* TOTAL_DAYS and a snapshot taken in that day; with the snapshots complete,
\* the admin's terminate_pool is accepted whether the pool is paused or not.
C12_TerminateNeedsAllSnapshots ==
    /\ [][TerminateStep => (terminated = 0 /\ snapshot_count = TOTAL_DAYS)]_vars
    /\ [](terminated = 1 =>
            (current_day_now = TOTAL_DAYS /\ snapshot_count = TOTAL_DAYS))
    /\ []((pool_state = "live" /\ terminated = 0 /\ snapshot_count = TOTAL_DAYS)
            => terminate_pool_err(Admin) = "Ok")

\* C12 witness: the pool has just been terminated while paused.
C12_Witness ==
    /\ last_call.op = "terminate_pool"
    /\ terminated = 1 /\ paused = 1 /\ total_staked > 0

\* C13: while the clock is in day N >= 1, a claim_airdrop or unstake step
\* happens only with snapshot_count >= N; in day 0 the unstake of an open
\* stake needs no snapshot; a claim step happens only when the pool is not
\* paused, not terminated, now > start_time and now is not past the exit
\* deadline.
C13_SnapshotBeforeUse ==
    /\ [][\A r \in Recipients :
            /\ (ClaimStep(r) \/ UnstakeStep(r))
                  => (current_day_now >= 1 => snapshot_count >= current_day_now)
            /\ ClaimStep(r)
                  => /\ paused = 0 /\ terminated = 0
                     /\ now > start_time
                     /\ now <= exit_deadline(start_time)]_vars
    /\ [](\A r \in Recipients :
            (current_day_now = 0 /\ snapshot_count = 0)
                => /\ OpenStake(r) => unstake_err(r) = "Ok"
                   /\ unstake_err(r) # "SnapshotRequiredFirst"
                   /\ \A amount \in Amounts, proof \in Proofs :
                         claim_airdrop_err(r, amount, proof) # "SnapshotRequiredFirst"
                   /\ (r \notin claim_marker /\ ClaimOtherwiseAccepted(r))
                         => claim_airdrop_err(r, Allocation[r], TreeProof(r)) = "Ok")

\* C13 witness: in a day N >= 1 whose snapshot is missing, a claim with a
\* valid proof and the unstake of an open stake are both rejected for the
\* missing snapshot.
C13_Witness ==
    /\ current_day_now >= 1
    /\ \E r \in Recipients :
          claim_airdrop_err(r, Allocation[r], TreeProof(r)) = "SnapshotRequiredFirst"
    /\ \E r \in Recipients :
          OpenStake(r) /\ unstake_err(r) = "SnapshotRequiredFirst"

CalculateStep ==
    /\ last_call'.op = "calculate_rewards"
    /\ \E r \in Recipients, day \in 0 .. TOTAL_DAYS : CalculateRewards(r, day)

\* The days the unstake accrual loops over for the stake.
AccrualDays(stake) == {d \in Days : stake.claim_day <= d /\ d < snapshot_count}

\* The preview summed over the accrual days of the stake.
PreviewSum(stake) ==
    SumOver(AccrualDays(stake), [d \in Days |-> calculate_rewards(stake, d)])

\* The statement of C15 as written: in every state, the preview summed over
\* [claim_day, snapshot_count) is the reward unstake would pay.
C15_PreviewSumIsPayout ==
    \A r \in Recipients :
        StakeExists(r) => PreviewSum(user_stake[r]) = unstake_rewards(user_stake[r])

\* C15: for every stake, calculate_rewards(d) is 0 for d < claim_day and is
\* the share the unstake accrual adds for d when claim_day <= d <
\* snapshot_count; while the exit deadline has not passed, the preview summed
\* over [claim_day, snapshot_count) is the reward unstake pays, and after the
\* deadline unstake pays no reward; a preview step changes no account.
C15_PreviewAgreesUntilDeadline ==
    /\ [](\A r \in Recipients : StakeExists(r) =>
            LET stake == user_stake[r] IN
            /\ \A d \in Days :
                  /\ d < stake.claim_day => calculate_rewards(stake, d) = 0
                  /\ d \in AccrualDays(stake) =>
                        calculate_rewards(stake, d)
                          = user_share(stake.staked_amount, d, daily_rewards,
                                       daily_snapshots)
            /\ ~program_expired(start_time, now)
                  => PreviewSum(stake) = unstake_rewards(stake)
            /\ program_expired(start_time, now) => unstake_rewards(stake) = 0)
    /\ [][CalculateStep =>
            UNCHANGED << pool_state, pool_vars, user_stake, claim_marker,
                         pool_token_account, user_token_account,
                         admin_token_account, now >>]_vars

\* C15 witness: a preview has just run for a stake claimed after day 0 whose
\* accrual days include days snapshotted at different totals, with a
\* positive share, before the deadline.
C15_Witness ==
    /\ last_call.op = "calculate_rewards"
    /\ ~program_expired(start_time, now)
    /\ last_call.user \in Recipients
    /\ LET stake == user_stake[last_call.user] IN
       /\ StakeExists(last_call.user)
       /\ stake.claim_day >= 1
       /\ stake.claim_day < snapshot_count
       /\ calculate_rewards(stake, stake.claim_day) > 0
       /\ \E d \in AccrualDays(stake) :
             daily_snapshots[d] # daily_snapshots[snapshot_count - 1]

RecoverStep ==
    /\ last_call'.op = "recover_expired_tokens"
    /\ \E caller \in Signers : RecoverExpiredTokens(caller)

\* C16: recover_expired_tokens transfers exactly pool balance - total_staked
\* to the admin, so the balance afterwards is >= total_staked, and in the
\* state it leaves every stake with a positive amount can unstake and is paid
\* its full principal.
C16_PrincipalExitAfterRecover ==
    (pool_state = "live" /\ last_call.op = "recover_expired_tokens") =>
        /\ pool_token_account >= total_staked
        /\ \A r \in Recipients : OpenStake(r) =>
              /\ unstake_err(r) = "Ok"
              /\ total_payout(user_stake[r]) = user_stake[r].staked_amount

\* The statement of C17 as written: recover_expired_tokens is rejected for
\* every now < exit_deadline and accepted, given a positive recoverable
\* amount, for every now >= exit_deadline.
C17_RecoverFromDeadlineOn ==
    pool_state = "live" =>
        /\ now < exit_deadline(start_time)
              => \A caller \in Signers : recover_expired_tokens_err(caller) # "Ok"
        /\ (now >= exit_deadline(start_time)
              /\ recover_amount(pool_token_account, total_staked) > 0)
              => recover_expired_tokens_err(Admin) = "Ok"

\* C17: recover_expired_tokens is permitted exactly when now > exit_deadline,
\* where exit_deadline = start_time + (TOTAL_DAYS + EXIT_WINDOW_DAYS) *
\* SECONDS_PER_DAY: it is rejected for every now <= exit_deadline, the
\* instant now = exit_deadline included, and the admin's call is accepted,
\* given a positive recoverable amount, for every now > exit_deadline.
C17_RecoverOnlyPastDeadline ==
    /\ [](pool_state = "live" =>
            LET deadline == start_time
                              + ((TOTAL_DAYS + EXIT_WINDOW_DAYS) * SECONDS_PER_DAY) IN
            /\ exit_deadline(start_time) = deadline
            /\ now <= deadline
                  => \A caller \in Signers : recover_expired_tokens_err(caller) # "Ok"
            /\ (now > deadline /\ recover_amount(pool_token_account, total_staked) > 0)
                  => recover_expired_tokens_err(Admin) = "Ok")
    /\ [][RecoverStep =>
            /\ now > exit_deadline(start_time)
            /\ admin_token_account' - admin_token_account
                 = pool_token_account - total_staked
            /\ pool_token_account - total_staked > 0]_vars

\* C17 witness: the admin has just recovered tokens in the first instant
\* after the exit deadline.
C17_Witness ==
    /\ last_call.op = "recover_expired_tokens"
    /\ now = exit_deadline(start_time) + 1
    /\ admin_token_account > 0

\* C18: the pool record is closed only after terminate_pool has succeeded and
\* total_staked is 0, every recipient that claimed has unstaked, and no stake
\* entry exists when the pool is closed.
C18_ClosedOnlyWhenAllExited ==
    pool_state = "closed" =>
        /\ terminated = 1
        /\ total_staked = 0
        /\ \A r \in claim_marker : Exited(r)
        /\ \A r \in Recipients : ~StakeExists(r)

\* C19: a snapshot step in day k happens only with k >= 1 and the pool
\* neither paused nor terminated; it writes total_staked into every slot d
\* in [snapshot_count, k) that is 0 and into no other slot, so the slots one
\* call changes hold the same value; it sets snapshot_count to k and leaves
\* total_staked, total_airdrop_claimed, the flags, the stakes and the
\* balances unchanged. snapshot is rejected in day 0, while paused and after
\* termination.
C19_SnapshotFillsMissingSlots ==
    /\ [][SnapshotStep =>
            LET k == current_day_now IN
            /\ k >= 1 /\ paused = 0 /\ terminated = 0
            /\ \A d \in Days :
                  daily_snapshots'[d] =
                     IF snapshot_count <= d /\ d < k /\ daily_snapshots[d] = 0
                     THEN total_staked ELSE daily_snapshots[d]
            /\ \A d1, d2 \in Days :
                  (daily_snapshots'[d1] # daily_snapshots[d1]
                     /\ daily_snapshots'[d2] # daily_snapshots[d2])
                  => daily_snapshots'[d1] = daily_snapshots'[d2]
            /\ snapshot_count' = k
            /\ UNCHANGED << total_staked, total_airdrop_claimed, paused, terminated,
                            daily_rewards, user_stake, claim_marker,
                            pool_token_account, user_token_account,
                            admin_token_account >>]_vars
    /\ []((current_day_now = 0 \/ paused # 0 \/ terminated # 0) => snapshot_err # "Ok")

\* C19 witness: in day 2 a snapshot has just succeeded and the slots of days
\* 0 and 1 both hold the current total_staked, the slot of day 2 being empty.
C19_Witness ==
    /\ last_call.op = "snapshot"
    /\ current_day_now = 2 /\ snapshot_count = 2
    /\ total_staked > 0
    /\ daily_snapshots[0] = total_staked /\ daily_snapshots[1] = total_staked
    /\ daily_snapshots[2] = 0

\* C20: an initialize_pool step happens only from a state without a pool,
\* with start_time > now and daily rewards that sum to STAKING_POOL; it
\* leaves the pool active with all counters and snapshot slots 0 and
\* daily_rewards equal to the input. While no pool exists, an input with any
\* other sum (below, above, or overflowing the 64-bit sum) or with
\* start_time <= now is rejected. After creation no step changes
\* daily_rewards, so its sum stays STAKING_POOL.
C20_InitValidatesRewards ==
    /\ [][\A caller \in Signers, st \in {0, 1}, rewards \in RewardInputs :
            InitializePool(caller, st, TreeRoot, ToDays(rewards)) =>
               /\ pool_state = "uninit"
               /\ st > now
               /\ SumOver(Days, ToDays(rewards)) = STAKING_POOL
               /\ pool_state' = "live" /\ paused' = 0 /\ terminated' = 0
               /\ start_time' = st
               /\ total_staked' = 0 /\ total_airdrop_claimed' = 0
               /\ snapshot_count' = 0
               /\ \A d \in Days : daily_snapshots'[d] = 0
               /\ daily_rewards' = ToDays(rewards)]_vars
    /\ [](pool_state = "uninit" =>
            \A caller \in Signers, st \in {0, 1}, rewards \in RewardInputs :
               (SumOver(Days, ToDays(rewards)) # STAKING_POOL \/ ~(st > now))
                  => initialize_pool_err(caller, st, ToDays(rewards)) # "Ok")
    /\ [](pool_state # "uninit" => SumOver(Days, daily_rewards) = STAKING_POOL)
    /\ [][pool_state # "uninit" => daily_rewards' = daily_rewards]_vars

\* C20 witness: the pool has just been created with the schedule 4, 3, 3 and
\* a start time in the future.
C20_Witness ==
    /\ last_call.op = "initialize_pool"
    /\ pool_state = "live"
    /\ start_time > now
    /\ daily_rewards = ToDays(<< 4, 3, 3 >>)
    /\ paused = 0 /\ terminated = 0 /\ snapshot_count = 0

\* C21: for every start time and clock value, get_current_day is 0 when
\* now <= start_time and otherwise floor((now - start_time) /
\* SECONDS_PER_DAY) capped at TOTAL_DAYS; it never exceeds TOTAL_DAYS and
\* does not decrease when now grows, also along every run of the pool;
\* program_expired is true exactly when now > start_time + (TOTAL_DAYS +
\* EXIT_WINDOW_DAYS) * SECONDS_PER_DAY.
C21_DayAndExpiry ==
    /\ [](\A st \in 0 .. 2, t \in 0 .. (MaxTime + 1) :
            LET q == (t - st) \div SECONDS_PER_DAY IN
            /\ t <= st => get_current_day(st, t) = 0
            /\ (t > st /\ q <= TOTAL_DAYS) => get_current_day(st, t) = q
            /\ (t > st /\ q > TOTAL_DAYS) => get_current_day(st, t) = TOTAL_DAYS
            /\ get_current_day(st, t) <= TOTAL_DAYS
            /\ get_current_day(st, t) <= get_current_day(st, t + 1)
            /\ program_expired(st, t)
                 <=> t > st + ((TOTAL_DAYS + EXIT_WINDOW_DAYS) * SECONDS_PER_DAY))
    /\ [][get_current_day(start_time', now') >= get_current_day(start_time, now)]_vars

\* C21 witness: an unstake has just succeeded after the exit deadline, where
\* the uncapped day count is above TOTAL_DAYS and the day is TOTAL_DAYS.
C21_Witness ==
    /\ last_call.op = "unstake"
    /\ program_expired(start_time, now)
    /\ (now - start_time) \div SECONDS_PER_DAY > TOTAL_DAYS
    /\ get_current_day(start_time, now) = TOTAL_DAYS

\* The digests of the committed tree below the root.
TreeDigests == { TreeLeaf(r) : r \in Recipients } \cup { TreeNode(1), TreeNode(3) }

\* Against the committed root, a (recipient, amount, proof) verifies exactly
\* when the amount is the recipient's committed amount and the proof its
\* proof.
OnlyCommittedVerifies ==
    \A r \in Recipients, amount \in Amounts, proof \in Proofs :
        verify_merkle_proof(proof, TreeRoot, leaf_hash(r, amount))
           <=> (amount = Allocation[r] /\ proof = TreeProof(r))

\* The combining step is symmetric and hashes the smaller digest first.
StepIsOrderIndependent ==
    \A a, b \in TreeDigests :
        /\ merkle_step(a, b) = merkle_step(b, a)
        /\ merkle_step(a, b) = IF a <= b THEN hashv(a, b) ELSE hashv(b, a)

\* C22: the combining step of verify_merkle_proof gives the same digest for
\* (a, b) and (b, a), the smaller digest being hashed first; against the
\* pool's root, a (recipient, amount, proof) verifies only if the amount is
\* the recipient's committed amount and the proof its proof; a claim whose
\* triple does not verify is rejected, so a claim step stakes exactly the
\* committed amount.
C22_MerkleFailsClosed ==
    /\ [](StepIsOrderIndependent /\ OnlyCommittedVerifies)
    /\ [](pool_state = "live" =>
            /\ merkle_root = TreeRoot
            /\ \A r \in Recipients, amount \in Amounts, proof \in Proofs :
                  claim_airdrop_err(r, amount, proof) = "Ok"
                     => verify_merkle_proof(proof, merkle_root, leaf_hash(r, amount)))
    /\ [][\A r \in Recipients :
            ClaimStep(r) => /\ user_stake'[r].staked_amount = Allocation[r]
                            /\ total_staked' = total_staked + Allocation[r]]_vars

\* C22 witness: a recipient whose leaf is the larger digest of its pair, so
\* that the fold swaps the operands, has just claimed.
C22_Witness ==
    /\ last_call.op = "claim_airdrop"
    /\ last_call.user \in Recipients
    /\ TreeLeaf(last_call.user) > TreeLeaf(TreeSibling(last_call.user))
    /\ StakeExists(last_call.user)
    /\ user_stake[last_call.user].staked_amount > 0

\* C23: in unstake, terminate_pool and recover_expired_tokens the token
\* transfer is issued only after the operation's updates of the pool record:
\* the total_staked (unstake) and the terminated flag (terminate_pool) the
\* pool record holds when the transfer is issued are the values the
\* operation leaves, and recover_expired_tokens updates no pool field.
C23_MutateThenTransfer ==
    [][/\ \A r \in Recipients :
             UnstakeStep(r) =>
                unstake_total_staked_at_transfer(total_staked, user_stake[r])
                   = total_staked'
       /\ (TerminateStep /\ pool_token_account' # pool_token_account)
             => terminate_terminated_at_transfer = terminated'
       /\ RecoverStep => UNCHANGED pool_vars]_vars

\* The pool is live, not paused, r's stake entry exists and the balance
\* covers what unstake would pay r.
CanTryExit(r) ==
    /\ pool_state = "live" /\ paused = 0
    /\ StakeExists(r)
    /\ pool_token_account >= total_payout(user_stake[r])

\* C24: while the pool is not paused, the owner of any existing stake entry
\* whose payout the balance covers can unstake after at most one snapshot
\* call: unstake is accepted at once when snapshot_count equals the current
\* day or the pool is terminated, otherwise unstake or snapshot is accepted,
\* and right after any snapshot step unstake is accepted for every such
\* entry.
C24_ExitAfterOneSnapshot ==
    /\ [](\A r \in Recipients : CanTryExit(r) =>
            /\ (snapshot_count = current_day_now \/ terminated = 1)
                  => unstake_err(r) = "Ok"
            /\ unstake_err(r) = "Ok" \/ snapshot_err = "Ok")
    /\ [][SnapshotStep =>
            \A r \in Recipients : CanTryExit(r)' => (unstake_err(r) = "Ok")']_vars

\* The same statement for the entries with a positive staked amount only.
PositiveStakeExitsAfterOneSnapshot ==
    /\ [](\A r \in Recipients : (CanTryExit(r) /\ user_stake[r].staked_amount > 0) =>
            /\ (snapshot_count = current_day_now \/ terminated = 1)
                  => unstake_err(r) = "Ok"
            /\ unstake_err(r) = "Ok" \/ snapshot_err = "Ok")
    /\ [][SnapshotStep =>
            \A r \in Recipients :
               (CanTryExit(r) /\ user_stake[r].staked_amount > 0)'
                  => (unstake_err(r) = "Ok")']_vars

\* C25: for every existing stake entry and every day d with claim_day <= d
\* < snapshot_count, daily_snapshots[d] >= the entry's staked_amount and is
\* non-zero, and the entry's share for d is at most daily_rewards[d].
C25_EarnerInDenominator ==
    \A r \in Recipients : StakeExists(r) =>
        \A d \in AccrualDays(user_stake[r]) :
            /\ daily_snapshots[d] >= user_stake[r].staked_amount
            /\ daily_snapshots[d] # 0
            /\ user_share(user_stake[r].staked_amount, d, daily_rewards, daily_snapshots)
                 <= daily_rewards[d]

\* The same statement without the non-zero part.
EarnerCoveredBySnapshot ==
    \A r \in Recipients : StakeExists(r) =>
        \A d \in AccrualDays(user_stake[r]) :
            /\ daily_snapshots[d] >= user_stake[r].staked_amount
            /\ user_share(user_stake[r].staked_amount, d, daily_rewards, daily_snapshots)
                 <= daily_rewards[d]

\* C26: in every state snapshot_count <= the capped current day <=
\* TOTAL_DAYS, and every existing stake entry has claim_day <=
\* snapshot_count; hence the days the snapshot loop, the unstake accrual and
\* an accepted reward preview index are all below TOTAL_DAYS, also when the
\* clock is past day TOTAL_DAYS.
C26_IndicesInRange ==
    /\ snapshot_count <= current_day_now
    /\ current_day_now <= TOTAL_DAYS
    /\ \A d \in 0 .. TOTAL_DAYS :
          (snapshot_count <= d /\ d < current_day_now) => d \in Days
    /\ \A r \in Recipients : StakeExists(r) =>
          /\ user_stake[r].claim_day <= snapshot_count
          /\ \A d \in 0 .. TOTAL_DAYS :
                /\ (user_stake[r].claim_day <= d /\ d < snapshot_count) => d \in Days
                /\ calculate_rewards_err(r, d) = "Ok" =>
                      /\ d \in Days
                      /\ snapshot_count > 0 => (snapshot_count - 1) \in Days

\* C26 witness: a claim has just been made after day TOTAL_DAYS, with the
\* day capped, so that claim_day = snapshot_count = TOTAL_DAYS.
C26_Witness ==
    /\ last_call.op = "claim_airdrop"
    /\ last_call.user \in Recipients
    /\ (now - start_time) \div SECONDS_PER_DAY > TOTAL_DAYS
    /\ StakeExists(last_call.user)
    /\ user_stake[last_call.user].claim_day = TOTAL_DAYS
    /\ snapshot_count = TOTAL_DAYS

\* C27: every daily_snapshots slot with index >= snapshot_count is 0; no
\* step changes a slot with index < snapshot_count, so a slot a snapshot left
\* at 0 stays 0; and no reward is ever paid for a day whose slot is 0.
C27_SlotsWrittenOnce ==
    /\ [](\A d \in Days :
            /\ d >= snapshot_count => daily_snapshots[d] = 0
            /\ daily_snapshots[d] = 0 => rewards_paid[d] = 0)
    /\ [][\A d \in Days :
            d < snapshot_count => daily_snapshots'[d] = daily_snapshots[d]]_vars

\* C27 witness: a later snapshot has just filled the slot of day 1 while the
\* slot of day 0, snapshotted when nothing was staked, is still 0, and a
\* stake is open.
C27_Witness ==
    /\ last_call.op = "snapshot"
    /\ snapshot_count >= 2
    /\ daily_snapshots[0] = 0
    /\ daily_snapshots[1] > 0
    /\ daily_rewards[0] > 0 /\ rewards_paid[0] = 0
    /\ \E r \in Recipients : OpenStake(r)

====
